---- MODULE Spec2Model ----
(***************************************************************************)
(* A model of bfm.py (Build and Flash Manager): the version stamper        *)
(* (set_version), the binary locator (get_binary) and the pipeline of      *)
(* main().  Strings the program inspects character by character (lines of  *)
(* BiosId.env, file names) are sequences of one-character strings.         *)
(* Python's None is the empty sequence None; a present value x is <<x>>.   *)
(***************************************************************************)
EXTENDS Integers, Sequences, FiniteSets, TLC

None == << >>

Some(x) == << x >>

Val(o) == o[1]

(***************************************************************************)
(* Bounds of the model.                                                    *)
(***************************************************************************)
\* the largest version value a descriptor line holds (FormatHex(MaxCurr))
MaxCurr == 255

\* the longest descriptor file, in lines, built from the sample lines
MaxLines == 2

\* the largest number of entries of a scanned directory
MaxEntries == 3

\* modification times are 1..MaxMtime
MaxMtime == 2

(***************************************************************************)
(* Character-sequence helpers: Python's `in`, str.replace, str.strip,      *)
(* str.lower on the characters the model uses.                             *)
(***************************************************************************)
Slice(s, i, j) == IF i > j THEN << >> ELSE SubSeq(s, i, j)

StartsAt(s, p, i) ==
    /\ i >= 1
    /\ i + Len(p) - 1 <= Len(s)
    /\ \A k \in 1..Len(p) : s[i + k - 1] = p[k]

\* the 1-based index of the first occurrence of p in s at or after `from`, 0 if none
FindFrom(s, p, from) ==
    LET hits == { i \in from..(Len(s) - Len(p) + 1) : StartsAt(s, p, i) }
    IN  IF hits = {} THEN 0 ELSE CHOOSE i \in hits : \A j \in hits : i <= j

Contains(s, p) == FindFrom(s, p, 1) # 0

RECURSIVE ReplaceAll(_, _, _)
\* s.replace(old, new) for a non-empty old: leftmost non-overlapping occurrences
ReplaceAll(s, old, new) ==
    LET i == FindFrom(s, old, 1)
    IN  IF old = << >> \/ i = 0
        THEN s
        ELSE Slice(s, 1, i - 1) \o new
                 \o ReplaceAll(Slice(s, i + Len(old), Len(s)), old, new)

Whitespace == { " ", "\t", "\n", "\r" }

RECURSIVE LStrip(_)
LStrip(s) == IF s # << >> /\ s[1] \in Whitespace THEN LStrip(Tail(s)) ELSE s

RECURSIVE RStrip(_)
RStrip(s) ==
    IF s # << >> /\ s[Len(s)] \in Whitespace
    THEN RStrip(Slice(s, 1, Len(s) - 1))
    ELSE s

Strip(s) == RStrip(LStrip(s))

UpperCase ==
    << "A", "B", "C", "D", "E", "F", "G", "H", "I", "J", "K", "L", "M",
       "N", "O", "P", "Q", "R", "S", "T", "U", "V", "W", "X", "Y", "Z" >>

LowerCase ==
    << "a", "b", "c", "d", "e", "f", "g", "h", "i", "j", "k", "l", "m",
       "n", "o", "p", "q", "r", "s", "t", "u", "v", "w", "x", "y", "z" >>

LowerChar(c) ==
    IF \E k \in 1..Len(UpperCase) : UpperCase[k] = c
    THEN LowerCase[CHOOSE k \in 1..Len(UpperCase) : UpperCase[k] = c]
    ELSE c

Lower(s) == [ k \in 1..Len(s) |-> LowerChar(s[k]) ]

(***************************************************************************)
(* format_hex and decode_hex.                                              *)
(***************************************************************************)
HexDigits ==
    << "0", "1", "2", "3", "4", "5", "6", "7",
       "8", "9", "A", "B", "C", "D", "E", "F" >>

RECURSIVE HexText(_)
\* the uppercase hexadecimal digits of n >= 0, without padding
HexText(n) ==
    IF n < 16
    THEN << HexDigits[n + 1] >>
    ELSE HexText(n \div 16) \o << HexDigits[(n % 16) + 1] >>

\* f"{value:02X}" for value >= 0; `reverse` changes nothing (both branches
\* of format_hex return hex_str)
format_hex(value, reverse) ==
    LET hex_str == IF value < 16 THEN << "0" >> \o HexText(value) ELSE HexText(value)
    IN  IF reverse THEN hex_str ELSE hex_str

IsHexDigit(c) == \E k \in 1..16 : HexDigits[k] = c \/ Lower(<< HexDigits[k] >>)[1] = c

HexValue(c) ==
    (CHOOSE k \in 1..16 : HexDigits[k] = c \/ Lower(<< HexDigits[k] >>)[1] = c) - 1

RECURSIVE HexNumber(_)
HexNumber(s) ==
    IF s = << >> THEN 0
    ELSE 16 * HexNumber(Slice(s, 1, Len(s) - 1)) + HexValue(s[Len(s)])

\* int(hex_str, 16): Some(n), or None for the ValueError int() raises on an
\* empty text or on a character that is no hexadecimal digit.  (int() also
\* takes a sign, a 0x prefix and single underscores; the sample tokens of
\* the model hold none of these.)
decode_hex(hex_str) ==
    IF hex_str # << >> /\ \A k \in 1..Len(hex_str) : IsHexDigit(hex_str[k])
    THEN Some(HexNumber(hex_str))
    ELSE None

(***************************************************************************)
(* set_version.                                                            *)
(***************************************************************************)
VERSION_FEATURE ==
    << "V", "E", "R", "S", "I", "O", "N", "_", "F", "E", "A", "T", "U", "R", "E" >>

\* the last index of a line that the regular expression's `.` can match:
\* a line read by readlines() ends with at most one newline
LastDot(line) ==
    IF line # << >> /\ line[Len(line)] = "\n" THEN Len(line) - 1 ELSE Len(line)

\* re.search(r'VERSION_FEATURE.*?=(.+)', line): Some(group(1)) or None.
\* The lazy .*? stops at the first '=' after the marker; (.+) takes the
\* rest of the line and needs one character at least.
VersionMatch(line) ==
    LET m == FindFrom(line, VERSION_FEATURE, 1)
        q == IF m = 0 THEN 0 ELSE FindFrom(line, << "=" >>, m + Len(VERSION_FEATURE))
    IN  IF m = 0 \/ q = 0 \/ q >= LastDot(line)
        THEN None
        ELSE Some(Slice(line, q + 1, LastDot(line)))

\* lines 110-115: the index of the first line that holds the marker and an
\* '=' and that the regular expression matches; 0 if there is none
MatchedLine(lines) ==
    LET hits == { i \in 1..Len(lines) :
                    /\ Contains(lines[i], VERSION_FEATURE)
                    /\ Contains(lines[i], << "=" >>)
                    /\ VersionMatch(lines[i]) # None }
    IN  IF hits = {} THEN 0 ELSE CHOOSE i \in hits : \A j \in hits : i <= j

curr_version_str(lines) == Strip(Val(VersionMatch(lines[MatchedLine(lines)])))

new_version_wrap256(curr_version, version) ==
    IF version = None THEN (curr_version - 1) % 256 ELSE Val(version) % 100

\* lines 122-125
new_version(curr_version, version) ==
    IF version = None THEN (curr_version - 1) % 100 ELSE Val(version) % 100

\* lines 130-135
new_lines(lines, old, new) ==
    [ i \in 1..Len(lines) |->
        IF Contains(lines[i], VERSION_FEATURE)
        THEN ReplaceAll(lines[i], old, new)
        ELSE lines[i] ]

Missing == [ state |-> "missing", lines |-> << >> ]

File(lines) == [ state |-> "file", lines |-> lines ]

\* set_version(file_path, version) on the descriptor `file`: the exception
\* raised ("ok" if none), the file afterwards, the decoded current version
\* and the new one
set_version(file, version) ==
    LET fail(e) == [ status |-> e, file |-> file, curr |-> 0, new |-> 0,
                     old |-> << >>, text |-> << >>, line |-> 0 ]
    IN  IF file.state # "file"
        THEN fail("FileNotFoundError")
        ELSE IF MatchedLine(file.lines) = 0
        THEN fail("ValueError: VERSION_FEATURE not found in BiosId.env")
        ELSE LET str  == curr_version_str(file.lines)
                 curr == decode_hex(str)
             IN  IF curr = None
                 THEN fail("ValueError: invalid literal for int()")
                 ELSE LET new  == new_version(Val(curr), version)
                          text == format_hex(new, TRUE)
                      IN  [ status |-> "ok",
                            file   |-> File(new_lines(file.lines, str, text)),
                            curr   |-> Val(curr),
                            new    |-> new,
                            old    |-> str,
                            text   |-> text,
                            line   |-> MatchedLine(file.lines) ]

(***************************************************************************)
(* get_binary.  A path is a directory with its entries in the order the    *)
(* scan yields them, a regular file, or missing; fsError says that a stat  *)
(* of it raises OSError.                                                   *)
(***************************************************************************)
Entry(name, mtime) == [ name |-> name, mtime |-> mtime ]

Dir(entries, fsError) ==
    [ kind |-> "dir", entries |-> entries, fsError |-> fsError ]

RegularFile(name, mtime, fsError) ==
    [ kind |-> "file", entries |-> << Entry(name, mtime) >>, fsError |-> fsError ]

NoPath == [ kind |-> "missing", entries |-> << >>, fsError |-> FALSE ]

\* glob.glob(os.path.join(path, "*.bin")): the name ends in ".bin" and is
\* not hidden (a leading dot is not matched by the pattern's *)
GlobBin(name) ==
    /\ Len(name) >= 4
    /\ Slice(name, Len(name) - 3, Len(name)) = << ".", "b", "i", "n" >>
    /\ name[1] # "."

valid_file_keeps_pvt(e) ==
    LET basename == Lower(e.name)
    IN  /\ GlobBin(e.name)
        /\ \/ Contains(basename, << "3", "2" >>)
           \/ Contains(basename, << "6", "4" >>)

\* lines 228-229
valid_file(e) ==
    LET basename == Lower(e.name)
    IN  /\ GlobBin(e.name)
        /\ ~ Contains(basename, << "p", "v", "t" >>)
        /\ \/ Contains(basename, << "3", "2" >>)
           \/ Contains(basename, << "6", "4" >>)

\* max(valid_files, key=os.path.getmtime): the first of the largest
latest_file(valid_files) ==
    LET i == CHOOSE i \in 1..Len(valid_files) :
                 /\ \A j \in 1..Len(valid_files) :
                        valid_files[j].mtime <= valid_files[i].mtime
                 /\ \A j \in 1..(i - 1) :
                        valid_files[j].mtime < valid_files[i].mtime
    IN  valid_files[i]

\* get_binary(path): Some(name and modification time) or None
get_binary(path) ==
    IF path.kind = "dir"
    THEN LET valid_files == SelectSeq(path.entries, valid_file)
         IN  IF valid_files # << >> /\ ~ path.fsError
             THEN Some(latest_file(valid_files))
             ELSE None
    ELSE IF path.kind = "file" /\ ~ path.fsError
    THEN Some(path.entries[1])
    ELSE None

(***************************************************************************)
(* The state of a run of main().                                           *)
(***************************************************************************)
VARIABLES
    args,        \* the parsed arguments; check_and_create_directories clears
                 \* save, network and output when the user declines
    req,         \* the arguments as given on the command line
    config,      \* None, or Some(the configuration get_config returned)
    pc,          \* the statement of main() that runs next; "exit" at the end
    todo,        \* directories_to_check, what is left of it
    dirs,        \* each save destination: "present", "absent", or "unknown"
                 \* while the run has not yet looked at it
    created,     \* the destinations os.makedirs created in this run
    declined,    \* the destinations the user declined to create
    stage,       \* None, or Some(the branch of lines 352-366 that was taken)
    biosid,      \* BiosId.env: "unread" until set_version opens it
    stamp,       \* the calls of set_version so far and what the last one did
    built,       \* None, or Some(the build command that was run)
    target,      \* the path the last get_binary was given
    binary,      \* None, or Some(the binary get_binary returned)
    searched,    \* the places get_binary was called on, in order
    copies,      \* the files shutil.copy2 wrote in this run
    flashed,     \* whether dpcmd was invoked
    trace,       \* the operations with side effects so far, in order
    reported,    \* the messages printed that the claims are about
    exitStatus   \* None while running, Some(0) or Some(1) at the end

vars ==
    << args, req, config, pc, todo, dirs, created, declined, stage, biosid,
       stamp, built, target, binary, searched, copies, flashed, trace,
       reported, exitStatus >>

Dests == { "bootleg_loc", "network_loc", "output" }

Event(op, at, ok) == [ op |-> op, at |-> at, ok |-> ok ]

Unread == [ state |-> "unread", lines |-> << >> ]

NoStamp ==
    [ calls |-> 0, version |-> None, status |-> "none", curr |-> 0, new |-> 0,
      old |-> << >>, text |-> << >>, line |-> 0, before |-> Unread ]

Stamped(r, version, before, calls) ==
    [ calls |-> calls, version |-> version, status |-> r.status, curr |-> r.curr,
      new |-> r.new, old |-> r.old, text |-> r.text, line |-> r.line,
      before |-> before ]

(***************************************************************************)
(* get_config and create_config.  treeExists is what os.path.exists says   *)
(* of the repository tree.                                                 *)
(***************************************************************************)
get_repo_loc(tree, default) == IF tree # None THEN Val(tree) ELSE default

create_config(name, tree, default_tree, biosid_loc, treeExists) ==
    IF ~ treeExists
    THEN [ status |-> "FileNotFoundError", name |-> name,
           repo_loc |-> get_repo_loc(tree, default_tree), biosid_loc |-> biosid_loc ]
    ELSE [ status |-> "ok", name |-> name,
           repo_loc |-> get_repo_loc(tree, default_tree), biosid_loc |-> biosid_loc ]

get_config(platform, tree, treeExists) ==
    IF platform = Some("U60")
    THEN create_config("Glacier", tree, "HpWintersWks",
                       "MultiProject/U60Glacier/BLD/BiosId.env", treeExists)
    ELSE IF platform = Some("U61")
    THEN create_config("Winters", tree, "HpWintersWks",
                       "MultiProject/U61Blizzard/BLD/BiosId.env", treeExists)
    ELSE IF platform = Some("U65")
    THEN create_config("Avalanche", tree, "HpAvalancheWks",
                       "BLD/RSPS/BiosId.env", treeExists)
    ELSE IF platform = Some("X60") \/ platform = None
    THEN create_config("Springs", tree, "HpSpringsWks",
                       "MultiProject/X60Steamboat/BLD/BiosId.env", treeExists)
    ELSE [ status |-> "ValueError", name |-> "", repo_loc |-> "", biosid_loc |-> "" ]

\* lines 145-152
command(name) ==
    CASE name = "Glacier"   -> "HpBldGlacier.bat"
      [] name = "Winters"   -> "HpBldBlizzard.bat"
      [] name = "Avalanche" -> "HpBiosBuild.bat"
      [] name = "Springs"   -> "HpBldSprings.bat"
      [] OTHER              -> "HpBldSprings.bat"

\* lines 168-177
directories_to_check(a) ==
    (IF a.save THEN << "bootleg_loc" >> ELSE << >>)
        \o (IF a.network THEN << "network_loc" >> ELSE << >>)
        \o (IF a.output # None THEN << "output" >> ELSE << >>)

DeclineAll(a, d) == [ a EXCEPT !.save = FALSE, !.network = FALSE, !.output = None ]

\* lines 186-191: the flag of a declined destination is removed
Decline(a, d) ==
    CASE d = "bootleg_loc" -> [ a EXCEPT !.save = FALSE ]
      [] d = "network_loc" -> [ a EXCEPT !.network = FALSE ]
      [] d = "output"      -> [ a EXCEPT !.output = None ]

\* whether the save to destination d is (still) asked for: lines 371, 375, 379
Wanted(a, d) ==
    CASE d = "bootleg_loc" -> a.save
      [] d = "network_loc" -> a.network
      [] d = "output"      -> a.output # None

\* lines 207-211: the name the copy gets
Dot(name) ==
    LET dots == { i \in 1..Len(name) : name[i] = "." }
    IN  IF dots = {} THEN 0 ELSE CHOOSE i \in dots : \A j \in dots : j <= i

Stem(name) ==
    IF Dot(name) > 1 /\ Dot(name) < Len(name) THEN Slice(name, 1, Dot(name) - 1) ELSE name

Suffix(name) ==
    IF Dot(name) > 1 /\ Dot(name) < Len(name)
    THEN Slice(name, Dot(name), Len(name))
    ELSE << >>

bootleg_basename(name, append) ==
    IF append = None THEN name ELSE Stem(name) \o << "_" >> \o Val(append) \o Suffix(name)

select_stage_path_first(a) ==
    IF a.build THEN "build"
    ELSE IF a.path # None THEN "path"
    ELSE IF a.bootleg THEN "bootleg"
    ELSE "fallback"

\* lines 352-366: the branch main() takes
select_stage(a) ==
    IF a.build THEN "build"
    ELSE IF a.bootleg THEN "bootleg"
    ELSE IF a.path # None THEN "path"
    ELSE "fallback"

(***************************************************************************)
(* The inputs of the model: sample descriptor lines, sample directories,   *)
(* sample command lines.                                                   *)
(***************************************************************************)
AssignLine(token) == VERSION_FEATURE \o << " ", "=", " " >> \o token \o << "\n" >>

\* a comment that names the marker (no '=' on the line)
NoteLine(token) == << "#", " " >> \o VERSION_FEATURE \o << " " >> \o token \o << "\n" >>

\* another field of the descriptor
OtherLine(token) == << "I", "D", " ", "=", " " >> \o token \o << "\n" >>

SampleTokens == { << "0", "5" >>, << "0", "0" >>, << "G", "1" >>, << >> }

SampleLines ==
    { AssignLine(t) : t \in SampleTokens }
        \cup { NoteLine(t) : t \in { << "0", "5" >>, << "0", "0" >> } }
        \cup { OtherLine(t) : t \in { << "0", "5" >>, << "6", "3" >> } }

RECURSIVE SeqsUpTo(_, _)
\* the sequences over S of length at most n
SeqsUpTo(S, n) ==
    IF n = 0 THEN { << >> }
    ELSE LET shorter == SeqsUpTo(S, n - 1)
         IN  shorter \cup { Append(q, x) : q \in shorter, x \in S }

\* descriptors: every version 0..MaxCurr on a one-line file, the files of
\* up to MaxLines sample lines, and no file at all
StampFiles ==
    { File(<< AssignLine(format_hex(v, TRUE)) >>) : v \in 0..MaxCurr }
        \cup { File(ls) : ls \in SeqsUpTo(SampleLines, MaxLines) }
        \cup { Missing }

StampVersions == { None, Some(0), Some(7), Some(150) }

A32 == << "A", "3", "2", ".", "b", "i", "n" >>

Bpvt64 == << "B", "p", "v", "t", "6", "4", ".", "b", "i", "n" >>

SampleNames ==
    { A32, Bpvt64,
      << "P", "V", "T", "3", "2", ".", "b", "i", "n" >>,
      << "c", "6", "4", ".", "b", "i", "n" >>,
      << "x", ".", "b", "i", "n" >>,
      << "d", "3", "2", ".", "t", "x", "t" >> }

\* directory listings: up to MaxEntries entries with distinct names
Listings ==
    { es \in SeqsUpTo({ Entry(n, t) : n \in SampleNames, t \in 1..MaxMtime }, MaxEntries) :
        \A i, j \in 1..Len(es) : i # j => es[i].name # es[j].name }

LocateTargets ==
    { Dir(es, e) : es \in Listings, e \in BOOLEAN }
        \cup { RegularFile(n, 1, e) : n \in SampleNames, e \in BOOLEAN }
        \cup { NoPath }

\* what a run of main() may find on disk
PipelineDirs ==
    { Dir(<< >>, FALSE), Dir(<< Entry(A32, 1) >>, FALSE) }

PipelineDescriptors ==
    { Missing,
      File(<< OtherLine(<< "6", "3" >>), AssignLine(<< "0", "0" >>) >>),
      File(<< OtherLine(<< "0", "5" >>) >>) }

Responses == { "y", "yes", "n", "" }

\* platform and --tree: the default platform, a platform with a tree
\* override, an unknown platform
Platforms ==
    { [ platform |-> None, tree |-> None ],
      [ platform |-> Some("U65"), tree |-> Some("HpAltWks") ],
      [ platform |-> Some("Z99"), tree |-> None ] }

\* the command lines of the model; the platform, --tree and --release are
\* read once each, by get_config and by build, and are drawn there

ArgsSet ==
    [ build       : BOOLEAN,
      bootleg     : BOOLEAN,
      save        : BOOLEAN,
      network     : BOOLEAN,
      flash       : BOOLEAN,
      path        : { None, Some("path") },
      append      : { None, Some(<< "t" >>) },
      output      : { None, Some("output") },
      decrement   : BOOLEAN,
      set_version : { None, Some(0) } ]

(***************************************************************************)
(* main(): one action per statement of lines 343-390.                      *)
(***************************************************************************)
Message(level, text) == [ level |-> level, text |-> text ]

RaiseStatus0(message) ==
    /\ pc' = "exit"
    /\ exitStatus' = Some(0)
    /\ reported' = Append(reported, Message("Error", message))

\* lines 388-390: an exception raised anywhere in the try block is printed
\* and the process exits with status 1
Raise(message) ==
    /\ pc' = "exit"
    /\ exitStatus' = Some(1)
    /\ reported' = Append(reported, Message("Error", message))

\* falling off the end of main()
Return(message) ==
    /\ pc' = "exit"
    /\ exitStatus' = Some(0)
    /\ reported' = Append(reported, Message("info", message))

\* lines 344-345
GetConfig ==
    /\ pc = "get_config"
    /\ \E p \in Platforms, treeExists \in BOOLEAN :
         LET r == get_config(p.platform, p.tree, treeExists)
         IN  /\ trace' = Append(trace, Event("get_config", "", r.status = "ok"))
             /\ IF r.status = "ok"
                THEN /\ config' = Some(r)
                     /\ todo' = directories_to_check(args)
                     /\ pc' = "check_and_create_directories"
                     /\ UNCHANGED << reported, exitStatus >>
                ELSE /\ Raise(IF r.status = "ValueError"
                              THEN "Unknown platform"
                              ELSE "Repository tree not found")
                     /\ UNCHANGED << config, todo >>
    /\ UNCHANGED << args, req, dirs, created, declined, stage, biosid, stamp,
                    built, target, binary, searched, copies, flashed >>

\* lines 179-198: one turn of the loop over directories_to_check.  response
\* is the answer after strip().lower(); makedirsOk is whether os.makedirs
\* succeeds
CheckDirectory ==
    /\ pc = "check_and_create_directories"
    /\ todo # << >>
    /\ \E exists \in BOOLEAN, response \in Responses, makedirsOk \in BOOLEAN :
         LET d == Head(todo)
         IN  IF exists
             THEN /\ dirs' = [ dirs EXCEPT ![d] = "present" ]
                  /\ todo' = Tail(todo)
                  /\ UNCHANGED << args, created, declined, trace, pc, reported,
                                  exitStatus >>
             ELSE IF response \notin { "y", "yes" }
             THEN /\ args' = Decline(args, d)
                  /\ declined' = declined \cup { d }
                  /\ dirs' = [ dirs EXCEPT ![d] = "absent" ]
                  /\ todo' = Tail(todo)
                  /\ trace' = Append(trace, Event("decline", d, TRUE))
                  /\ UNCHANGED << created, pc, reported, exitStatus >>
             ELSE IF makedirsOk
             THEN /\ created' = created \cup { d }
                  /\ dirs' = [ dirs EXCEPT ![d] = "present" ]
                  /\ todo' = Tail(todo)
                  /\ trace' = Append(trace, Event("makedirs", d, TRUE))
                  /\ UNCHANGED << args, declined, pc, reported, exitStatus >>
             ELSE /\ dirs' = [ dirs EXCEPT ![d] = "absent" ]
                  /\ trace' = Append(trace, Event("makedirs", d, FALSE))
                  /\ Raise("Could not create directory")
                  /\ UNCHANGED << args, created, declined, todo >>
    /\ UNCHANGED << req, config, stage, biosid, stamp, built, target, binary,
                    searched, copies, flashed >>

first_step_no_stamp(a) ==
    CASE select_stage(a) = "build"    -> "build"
      [] select_stage(a) = "bootleg"  -> "find_bootleg"
      [] select_stage(a) = "path"     -> "find_path"
      [] select_stage(a) = "fallback" -> "find_build"

\* lines 352-366: the first statement of the branch taken
first_step(a) ==
    CASE select_stage(a) = "build" ->
             IF a.set_version # None \/ a.decrement THEN "set_version" ELSE "build"
      [] select_stage(a) = "bootleg"  -> "find_bootleg"
      [] select_stage(a) = "path"     -> "find_path"
      [] select_stage(a) = "fallback" -> "find_build"

\* lines 350-366: binary = None and the choice of the branch
SelectStage ==
    /\ pc = "check_and_create_directories"
    /\ todo = << >>
    /\ stage' = Some(select_stage(args))
    /\ binary' = None
    /\ pc' = first_step(args)
    /\ UNCHANGED << args, req, config, todo, dirs, created, declined, biosid,
                    stamp, built, target, searched, copies, flashed, trace,
                    reported, exitStatus >>

\* lines 353-356: set_version(config['biosid_loc'], args.set_version), or
\* set_version(config['biosid_loc']) to decrement
SetVersion ==
    /\ pc = "set_version"
    /\ \E file \in PipelineDescriptors :
         LET version == IF args.set_version # None THEN args.set_version ELSE None
             r == set_version(file, version)
         IN  /\ biosid' = r.file
             /\ stamp' = Stamped(r, version, file, stamp.calls + 1)
             /\ trace' = Append(trace, Event("set_version", "", r.status = "ok"))
             /\ IF r.status = "ok"
                THEN pc' = "build" /\ UNCHANGED << reported, exitStatus >>
                ELSE Raise("BiosId.env")
    /\ UNCHANGED << args, req, config, todo, dirs, created, declined, stage,
                    built, target, binary, searched, copies, flashed >>

\* line 358 and lines 141-163: buildOk is whether the build tool exits 0
Build ==
    /\ pc = "build"
    /\ \E release \in BOOLEAN, buildOk \in BOOLEAN :
         /\ built' = Some(IF release
                          THEN << command(Val(config).name), "r" >>
                          ELSE << command(Val(config).name) >>)
         /\ trace' = Append(trace, Event("build", "", buildOk))
         /\ IF buildOk
            THEN pc' = "find_build" /\ UNCHANGED << reported, exitStatus >>
            ELSE Raise("Build failed")
    /\ UNCHANGED << args, req, config, todo, dirs, created, declined, stage,
                    biosid, stamp, target, binary, searched, copies, flashed >>

Located(place, path) ==
    LET b == get_binary(path)
    IN  IF b = None THEN None
        ELSE Some([ dir |-> place, name |-> Val(b).name, mtime |-> Val(b).mtime ])

\* lines 359 and 366: find_build(config['bld_path'])
FindBuild ==
    /\ pc = "find_build"
    /\ \E path \in PipelineDirs :
         /\ target' = path
         /\ binary' = Located("bld_path", path)
    /\ searched' = Append(searched, "bld_path")
    /\ trace' = Append(trace, Event("get_binary", "bld_path", TRUE))
    /\ pc' = "check_binary"
    /\ UNCHANGED << args, req, config, todo, dirs, created, declined, stage,
                    biosid, stamp, built, copies, flashed, reported,
                    exitStatus >>

\* what the archive directory d can hold when the run looks into it
Archive(d) ==
    IF dirs[d] = "absent" THEN { NoPath }
    ELSE IF d \in created THEN { Dir(<< >>, FALSE) }
    ELSE IF dirs[d] = "present" THEN PipelineDirs
    ELSE PipelineDirs \cup { NoPath }

\* line 361: find_bootleg(config['bootleg_loc'])
FindBootleg ==
    /\ pc = "find_bootleg"
    /\ \E path \in Archive("bootleg_loc") :
         /\ target' = path
         /\ binary' = Located("bootleg_loc", path)
         /\ dirs' = [ dirs EXCEPT !["bootleg_loc"] =
                        IF path.kind = "dir" THEN "present" ELSE "absent" ]
    /\ searched' = Append(searched, "bootleg_loc")
    /\ trace' = Append(trace, Event("get_binary", "bootleg_loc", TRUE))
    /\ pc' = "check_binary"
    /\ UNCHANGED << args, req, config, todo, created, declined, stage, biosid,
                    stamp, built, copies, flashed, reported, exitStatus >>

\* line 363: find_path(args.path); the path names a directory, a file or
\* nothing, outside the save destinations
FindPath ==
    /\ pc = "find_path"
    /\ \E path \in PipelineDirs \cup { NoPath, RegularFile(Bpvt64, 1, FALSE) } :
         /\ target' = path
         /\ binary' = Located("path", path)
    /\ searched' = Append(searched, "path")
    /\ trace' = Append(trace, Event("get_binary", "path", TRUE))
    /\ pc' = "check_binary"
    /\ UNCHANGED << args, req, config, todo, dirs, created, declined, stage,
                    biosid, stamp, built, copies, flashed, reported,
                    exitStatus >>

CheckBinaryReturns ==
    /\ pc = "check_binary"
    /\ IF binary = None
       THEN Return("")
       ELSE pc' = "save" /\ UNCHANGED << reported, exitStatus >>
    /\ UNCHANGED << args, req, config, todo, dirs, created, declined, stage,
                    biosid, stamp, built, target, binary, searched, copies,
                    flashed, trace >>

\* lines 368-369
CheckBinary ==
    /\ pc = "check_binary"
    /\ IF binary = None
       THEN Raise("No binary found")
       ELSE pc' = "save" /\ UNCHANGED << reported, exitStatus >>
    /\ UNCHANGED << args, req, config, todo, dirs, created, declined, stage,
                    biosid, stamp, built, target, binary, searched, copies,
                    flashed, trace >>

StepOf(d) ==
    CASE d = "bootleg_loc" -> "save"
      [] d = "network_loc" -> "network"
      [] d = "output"      -> "output"

NextOf(d) ==
    CASE d = "bootleg_loc" -> "network"
      [] d = "network_loc" -> "output"
      [] d = "output"      -> "flash"

\* shutil.copy2 raises SameFileError when source and destination are the
\* same file: the copy goes to the directory the binary is in, under the
\* name it has
SameFile(src, d, name) == src.dir = d /\ src.name = name

\* lines 371-381 and 201-215: `if args.<flag>: save_bootleg(...)` for the
\* destination d.  copyOk is whether the copy of shutil.copy2 (and the
\* os.makedirs before it, for a destination that is not there) succeeds
SaveBootleg(d) ==
    /\ pc = StepOf(d)
    /\ IF ~ Wanted(args, d)
       THEN /\ pc' = NextOf(d)
            /\ UNCHANGED << dirs, created, copies, trace, reported, exitStatus >>
       ELSE \E copyOk \in BOOLEAN :
              LET src  == Val(binary)
                  name == bootleg_basename(src.name, args.append)
              IN  IF SameFile(src, d, name)
                  THEN /\ trace' = Append(trace, Event("save", d, FALSE))
                       /\ Raise("are the same file")
                       /\ UNCHANGED << dirs, created, copies >>
                  ELSE IF ~ copyOk
                  THEN /\ trace' = Append(trace, Event("save", d, FALSE))
                       /\ Raise("OSError")
                       /\ UNCHANGED << dirs, created, copies >>
                  ELSE /\ dirs' = [ dirs EXCEPT ![d] = "present" ]
                       /\ created' = IF dirs[d] = "present" THEN created
                                     ELSE created \cup { d }
                       /\ trace' = Append(trace, Event("save", d, TRUE))
                       /\ copies' = copies \cup
                            { [ dir |-> d, name |-> name, from |-> src ] }
                       /\ pc' = NextOf(d)
                       /\ UNCHANGED << reported, exitStatus >>
    /\ UNCHANGED << args, req, config, todo, declined, stage, biosid, stamp,
                    built, target, binary, searched, flashed >>

FlashSilentSkip ==
    /\ pc = "flash"
    /\ IF args.flash
       THEN \E flashOk \in BOOLEAN :
              /\ flashed' = TRUE
              /\ trace' = Append(trace, Event("flash", "", flashOk))
              /\ IF flashOk THEN Return("Flash successful")
                 ELSE Raise("Flash failed")
       ELSE /\ Return("")
            /\ UNCHANGED << flashed, trace >>
    /\ UNCHANGED << args, req, config, todo, dirs, created, declined, stage,
                    biosid, stamp, built, target, binary, searched, copies >>

\* lines 383-386 and 293-301: flashOk is whether dpcmd exits 0
Flash ==
    /\ pc = "flash"
    /\ IF args.flash
       THEN \E flashOk \in BOOLEAN :
              /\ flashed' = TRUE
              /\ trace' = Append(trace, Event("flash", "", flashOk))
              /\ IF flashOk THEN Return("Flash successful")
                 ELSE Raise("Flash failed")
       ELSE /\ Return("Skipped flash")
            /\ UNCHANGED << flashed, trace >>
    /\ UNCHANGED << args, req, config, todo, dirs, created, declined, stage,
                    biosid, stamp, built, target, binary, searched, copies >>

Idle ==
    /\ config = None /\ todo = << >> /\ created = {} /\ declined = {}
    /\ dirs = [ d \in Dests |-> "unknown" ]
    /\ stage = None /\ built = None /\ copies = {} /\ flashed = FALSE
    /\ trace = << >> /\ reported = << >> /\ exitStatus = None
    /\ stamp = NoStamp /\ binary = None /\ searched = << >>

\* a run of main() on any command line of ArgsSet
Init ==
    /\ args \in ArgsSet
    /\ req = args
    /\ pc = "get_config"
    /\ biosid = Unread
    /\ target = NoPath
    /\ Idle

Next ==
    \/ GetConfig
    \/ CheckDirectory
    \/ SelectStage
    \/ SetVersion
    \/ Build
    \/ FindBuild
    \/ FindBootleg
    \/ FindPath
    \/ CheckBinary
    \/ \E d \in Dests : SaveBootleg(d)
    \/ Flash

Spec == Init /\ [][Next]_vars

(***************************************************************************)
(* set_version on its own: one call on a descriptor of StampFiles, with an *)
(* explicit version or none (decrement).                                   *)
(***************************************************************************)
NoArgs ==
    [ build |-> FALSE,
      bootleg |-> FALSE, save |-> FALSE, network |-> FALSE, flash |-> FALSE,
      path |-> None, append |-> None, output |-> None, decrement |-> FALSE,
      set_version |-> None ]

InitStamp ==
    /\ args = NoArgs
    /\ req = args
    /\ pc = "set_version"
    /\ biosid \in StampFiles
    /\ target = NoPath
    /\ Idle

SetVersionCall ==
    /\ stamp.calls = 0
    /\ \E version \in StampVersions :
         LET r == set_version(biosid, version)
         IN  /\ biosid' = r.file
             /\ stamp' = Stamped(r, version, biosid, stamp.calls + 1)
    /\ UNCHANGED << args, req, config, pc, todo, dirs, created, declined, stage,
                    built, target, binary, searched, copies, flashed, trace,
                    reported, exitStatus >>

NextStamp == SetVersionCall

SpecStamp == InitStamp /\ [][NextStamp]_vars

(***************************************************************************)
(* get_binary on its own, on any path of LocateTargets.                    *)
(***************************************************************************)
InitLocate ==
    /\ args = NoArgs
    /\ req = args
    /\ pc = "get_binary"
    /\ biosid = Unread
    /\ target \in LocateTargets
    /\ Idle

GetBinaryCall ==
    /\ pc = "get_binary"
    /\ binary' = Located("path", target)
    /\ searched' = Append(searched, "path")
    /\ pc' = "exit"
    /\ UNCHANGED << args, req, config, todo, dirs, created, declined, stage,
                    biosid, stamp, built, target, copies, flashed, trace,
                    reported, exitStatus >>

NextLocate == GetBinaryCall

SpecLocate == InitLocate /\ [][NextLocate]_vars

(***************************************************************************)
(* The claims.                                                             *)
(***************************************************************************)
Said(level, text) == \E i \in 1..Len(reported) : reported[i] = Message(level, text)

Did(op, at) == \E i \in 1..Len(trace) : trace[i].op = op /\ trace[i].at = at

Exited == pc = "exit"

\* C5: set_version without an explicit version decrements with wraparound:
\* a decoded version v in 1..99 is rewritten as v-1, the version 0 as 99,
\* and the value written is never negative.
C5_DecrementWraps ==
    (stamp.calls = 1 /\ stamp.status = "ok" /\ stamp.version = None) =>
        /\ stamp.new >= 0
        /\ stamp.curr \in 1..99 => stamp.new = stamp.curr - 1
        /\ stamp.curr = 0 => stamp.new = 99
        /\ stamp.text = format_hex(stamp.new, TRUE)
        /\ decode_hex(stamp.text) = Some(stamp.new)
        /\ Contains(biosid.lines[stamp.line], stamp.text)

\* the version 0 was decremented to 99, written as 63
C5_Witness ==
    /\ stamp.calls = 1 /\ stamp.status = "ok" /\ stamp.version = None
    /\ stamp.curr = 0 /\ stamp.new = 99
    /\ stamp.text = << "6", "3" >>

\* the entries of a scanned directory that pass the filter of the claim
Eligible(entries) ==
    { i \in 1..Len(entries) :
        /\ GlobBin(entries[i].name)
        /\ ~ Contains(Lower(entries[i].name), << "p", "v", "t" >>)
        /\ \/ Contains(Lower(entries[i].name), << "3", "2" >>)
           \/ Contains(Lower(entries[i].name), << "6", "4" >>) }

\* C6: get_binary on a directory returns one of the *.bin entries whose
\* lower-cased name holds no 'pvt' and holds '32' or '64', with the largest
\* modification time among them; never an entry that fails the filter; and
\* None when no entry passes it.  (When entries pass and no stat fails, it
\* does return one.)
C6_LatestEligible ==
    (Exited /\ target.kind = "dir") =>
        LET entries == target.entries
        IN  /\ binary # None =>
                 \E i \in Eligible(entries) :
                     /\ entries[i].name = Val(binary).name
                     /\ entries[i].mtime = Val(binary).mtime
                     /\ \A j \in Eligible(entries) :
                            entries[j].mtime <= entries[i].mtime
            /\ Eligible(entries) = {} => binary = None
            /\ (Eligible(entries) # {} /\ ~ target.fsError) => binary # None

\* a directory with A32.bin and a newer Bpvt64.bin: A32.bin is returned
C6_Witness ==
    /\ Exited
    /\ target = Dir(<< Entry(Bpvt64, 2), Entry(A32, 1) >>, FALSE)
    /\ binary # None
    /\ Val(binary).name = A32

\* the index of the first line that holds the marker and an '='
ClaimedLine(lines) ==
    LET hits == { i \in 1..Len(lines) :
                    Contains(lines[i], VERSION_FEATURE) /\ Contains(lines[i], << "=" >>) }
    IN  IF hits = {} THEN 0 ELSE CHOOSE i \in hits : \A j \in hits : i <= j

\* line `after` is line `before` with the token after the '=' replaced
TokenReplaced(before, after, old, new) ==
    LET m == FindFrom(before, VERSION_FEATURE, 1)
        q == FindFrom(before, << "=" >>, m + Len(VERSION_FEATURE))
        k == FindFrom(before, old, q + 1)
    IN  /\ m # 0 /\ q # 0 /\ k # 0
        /\ after = Slice(before, 1, k - 1) \o new
                       \o Slice(before, k + Len(old), Len(before))

\* the descriptor format: exactly one line holds the marker followed by an
\* '=', and its value is two characters that decode to a version 0..99
WellFormed(lines, token, version) ==
    /\ Cardinality({ i \in 1..Len(lines) : VersionMatch(lines[i]) # None }) = 1
    /\ Len(token) = 2
    /\ version \in 0..99

\* C7: set_version changes only the version token of the one matched line
\* (the first line with the marker and an '='): the token becomes the new
\* two-character hex text, the rest of that line is unchanged, and every
\* other line of the file is what it was before the call.  Stated for the
\* descriptors that keep the format.
C7_OnlyTheTokenChanges ==
    ( /\ stamp.calls = 1
      /\ stamp.status = "ok"
      /\ WellFormed(stamp.before.lines, stamp.old, stamp.curr) ) =>
        LET before == stamp.before.lines
            after  == biosid.lines
            i      == ClaimedLine(before)
        IN  /\ Len(after) = Len(before)
            /\ i # 0
            /\ \A j \in 1..Len(before) : j # i => after[j] = before[j]
            /\ TokenReplaced(before[i], after[i], stamp.old, stamp.text)

Copied(d, name) == \E c \in copies : c.dir = d /\ c.name = name

\* the command line `-l -s`: reuse the latest archived binary and save it
\* locally, nothing else asked for
ReuseAndSave ==
    /\ ~ req.build /\ req.bootleg /\ req.save
    /\ ~ req.network /\ req.output = None /\ ~ req.flash
    /\ req.path = None /\ req.append = None

\* C1: a run with build not requested, --bootleg and --save requested, on
\* an archive directory that holds one eligible binary, copies that binary
\* into the same directory under its own name and exits with status 0.
C1_ReuseAndSaveExitsZero ==
    ( /\ Exited
      /\ ReuseAndSave
      /\ searched = << "bootleg_loc" >>
      /\ target = Dir(<< Entry(A32, 1) >>, FALSE)
      /\ ~ Said("Error", "OSError") ) =>
        /\ exitStatus = Some(0)
        /\ Copied("bootleg_loc", A32)

Precedence(a) ==
    IF a.build THEN "build"
    ELSE IF a.bootleg THEN "bootleg"
    ELSE IF a.path # None THEN "path"
    ELSE "fallback"

PlaceOf(s) ==
    CASE s = "build"    -> "bld_path"
      [] s = "bootleg"  -> "bootleg_loc"
      [] s = "path"     -> "path"
      [] s = "fallback" -> "bld_path"

PastStage == pc \in { "check_binary", "save", "network", "output", "flash" }

\* C2: a run executes one binary-obtaining stage, chosen by precedence:
\* build, else reuse-latest-archived, else explicit path, else the search
\* of the build-output directory.  Only the place of that stage is ever
\* searched, once, also when it holds nothing; the build tool and the
\* version stamper run only in the build stage.  (A run that an earlier
\* error ends before line 350 executes none.)
C2_OneStageByPrecedence ==
    /\ stage # None => Val(stage) = Precedence(req)
    /\ Len(searched) <= 1
    /\ \A i \in 1..Len(searched) :
           stage # None /\ searched[i] = PlaceOf(Precedence(req))
    /\ (built # None \/ stamp.calls > 0) => req.build
    /\ PastStage => (stage # None /\ Len(searched) = 1)
    /\ Said("Error", "No binary found") => Len(searched) = 1
    /\ ((\E i \in 1..Len(trace) : trace[i] = Event("build", "", TRUE))
            /\ pc # "find_build") => searched = << "bld_path" >>

\* --bootleg and --path together, the archive holds nothing: only the
\* archive was searched and the run ended there
C2_Witness ==
    /\ Exited
    /\ ~ req.build /\ req.bootleg /\ req.path # None
    /\ searched = << "bootleg_loc" >>
    /\ binary = None

\* C3: when the selected stage obtains no binary, the run reports "No binary
\* found" and exits with status 1, and no save and no flash is attempted,
\* whatever save and flash flags were given.
C3_NoBinaryNoSaveNoFlash ==
    /\ (searched # << >> /\ binary = None /\ pc # "check_binary") =>
           /\ Exited
           /\ exitStatus = Some(1)
           /\ Said("Error", "No binary found")
    /\ binary = None =>
           /\ copies = {}
           /\ ~ flashed
           /\ \A i \in 1..Len(trace) : trace[i].op \notin { "save", "flash" }

\* nothing to build, reuse or open, an empty build folder, every save and
\* the flash asked for
C3_Witness ==
    /\ Exited
    /\ ~ req.build /\ ~ req.bootleg /\ req.path = None
    /\ req.save /\ req.network /\ req.output # None /\ req.flash
    /\ declined = {}
    /\ searched = << "bld_path" >>
    /\ binary = None
    /\ exitStatus = Some(1)

SaveOrder == << "bootleg_loc", "network_loc", "output" >>

\* C4: a stage error aborts the rest of the pipeline: a failed operation
\* is the last one of the run and the exit status is 1; nothing of a later
\* stage has happened; an error message means status 1; status 0 means no
\* operation failed and no error was reported.
C4_ErrorsAbort ==
    /\ \A i \in 1..Len(trace) :
           ~ trace[i].ok =>
               /\ i = Len(trace)
               /\ Exited /\ exitStatus = Some(1)
               /\ trace[i].op \in { "get_config", "makedirs" } =>
                      stage = None /\ stamp.calls = 0
               /\ trace[i].op \in { "get_config", "makedirs", "set_version" } =>
                      built = None
               /\ trace[i].op \in { "get_config", "makedirs", "set_version", "build" } =>
                      searched = << >> /\ copies = {}
               /\ trace[i].op # "flash" => ~ flashed
               /\ \A k, l \in 1..3 :
                      (trace[i].op = "save" /\ trace[i].at = SaveOrder[k] /\ l >= k)
                          => \A c \in copies : c.dir # SaveOrder[l]
    /\ (\E i \in 1..Len(reported) : reported[i].level = "Error") =>
           Exited /\ exitStatus = Some(1)
    /\ exitStatus = Some(0) =>
           /\ \A i \in 1..Len(trace) : trace[i].ok
           /\ \A i \in 1..Len(reported) : reported[i].level # "Error"
    /\ Exited => exitStatus \in { Some(0), Some(1) }

\* the network copy failed after the local one was made, with the custom
\* output and the flash still to come
C4_Witness ==
    /\ Exited /\ exitStatus = Some(1)
    /\ trace[Len(trace)] = Event("save", "network_loc", FALSE)
    /\ \E c \in copies : c.dir = "bootleg_loc"
    /\ Wanted(args, "output") /\ args.flash
    /\ ~ flashed

\* C8: declining to create a missing save directory disables the save to
\* that destination only: the run goes on, nothing is created or copied at
\* the declined destination, the other destinations asked for stay enabled
\* and are saved to, and the flash stays enabled and runs, in a run that
\* ends without an error.
C8_DeclineDisablesOneSave ==
    /\ \A d \in declined :
           /\ ~ Wanted(args, d)
           /\ d \notin created
           /\ dirs[d] = "absent"
           /\ \A c \in copies : c.dir # d
           /\ ~ Did("save", d) /\ ~ Did("makedirs", d)
    /\ \A d \in Dests \ declined : Wanted(args, d) = Wanted(req, d)
    /\ args.flash = req.flash
    /\ (trace # << >> /\ trace[Len(trace)].op = "decline") =>
           (~ Exited /\ exitStatus = None)
    /\ exitStatus = Some(0) =>
           /\ \A d \in Dests \ declined :
                  Wanted(req, d) => \E c \in copies : c.dir = d
           /\ req.flash => flashed

\* the network directory was declined; the local and the custom copy were
\* made and the binary was flashed
C8_Witness ==
    /\ exitStatus = Some(0)
    /\ declined = { "network_loc" }
    /\ req.save /\ req.network /\ req.output # None /\ req.flash
    /\ \E c \in copies : c.dir = "bootleg_loc"
    /\ \E c \in copies : c.dir = "output"
    /\ flashed

Index(op) == CHOOSE i \in 1..Len(trace) : trace[i].op = op

\* C10: the version descriptor is written only in a build-stage request, at
\* most once per run, with the explicit version if one is given and else by
\* decrement if that is asked for; the build tool is invoked only after the
\* stamping has succeeded, and never if it failed.
C10_StampOnceBeforeBuild ==
    /\ stamp.calls <= 1
    /\ stamp.calls = 0 => biosid = Unread
    /\ stamp.calls = 1 =>
           /\ req.build
           /\ req.set_version # None \/ req.decrement
           /\ stamp.version = req.set_version
           /\ stamp.status # "ok" => (biosid = stamp.before /\ built = None /\ Exited)
           /\ stamp.status = "ok" =>
                  /\ biosid.state = "file"
                  /\ stamp.new = (IF req.set_version # None
                                  THEN Val(req.set_version) % 100
                                  ELSE (stamp.curr - 1) % 100)
                  /\ Strip(Val(VersionMatch(biosid.lines[stamp.line])))
                         = format_hex(stamp.new, TRUE)
    /\ built # None =>
           /\ req.build
           /\ (req.set_version # None \/ req.decrement) =>
                  /\ stamp.calls = 1 /\ stamp.status = "ok"
                  /\ Index("set_version") < Index("build")
           /\ (req.set_version = None /\ ~ req.decrement) => stamp.calls = 0

\* --build --decrement on a descriptor at version 00: 63 was written, then
\* the build tool ran
C10_Witness ==
    /\ built # None
    /\ req.set_version = None /\ req.decrement
    /\ stamp.calls = 1 /\ stamp.status = "ok"
    /\ stamp.curr = 0 /\ stamp.new = 99
    /\ biosid # stamp.before

====
